---- MODULE Spec2Model ----
(***************************************************************************)
(* Model of package bind (bind.go): the XMLClient transport, the XML       *)
(* decoding of the statistics model, and the Client.Stats contract.        *)
(* Strings are TLA+ strings; s[i] of Go is Char(s, i + 1).                 *)
(***************************************************************************)
EXTENDS Integers, Sequences, FiniteSets, TLC

VARIABLES
    c,        \* the XMLClient: [url, http]
    pc,       \* per call of Get: "idle", "await", "decoding", "done"
    arg,      \* per call: the path argument p
    v0,       \* per call: the value v points to when Get is called
    target,   \* per call: the value v points to
    reqs,     \* per call: the URLs requested with c.http.Get, in order
    resp,     \* per call: the response c.http.Get returned, or NoResp
    ret,      \* per call: the error Get returned, "" for nil
    outcome,  \* per call: what c.http.Get yielded, or NoOutcome
    timedOut, \* per call: the HTTP client's timeout fired during the call
    overlap,  \* per call: another call was in flight while this one ran
    stPc,     \* Stats: "idle", "fetch", "wait", "done"
    stGroups, \* Stats: the groups still to fetch
    stStats,  \* Stats: the Statistics assembled so far
    stRet     \* Stats: the returned [stats, err]

getVars == <<pc, arg, v0, target, reqs, resp, ret, outcome, timedOut, overlap>>
stVars == <<stPc, stGroups, stStats, stRet>>
vars == <<c, pc, arg, v0, target, reqs, resp, ret, outcome, timedOut, overlap,
          stPc, stGroups, stStats, stRet>>

----------------------------------------------------------------------------
(* Bounds *)

MaxPathLen == 4

----------------------------------------------------------------------------
(* Strings *)

Char(s, i) == SubSeq(s, i, i)

HasPrefix(s, pre) == Len(s) >= Len(pre) /\ SubSeq(s, 1, Len(pre)) = pre

Alphabet == {"/", ".", "a", "b"}

RECURSIVE Strings(_)
Strings(n) ==
    IF n = 0 THEN {""}
    ELSE LET S == Strings(n - 1) IN S \cup {s \o ch : s \in S, ch \in Alphabet}

PathStrings == Strings(MaxPathLen)

----------------------------------------------------------------------------
(* path.Join and path.Clean, as called at bind.go:53 *)

\* the ".." case of Clean: drop the last element of out, down to dotdot
RECURSIVE Backtrack(_, _, _)
Backtrack(out, w, dotdot) ==
    IF w > dotdot /\ Char(out, w + 1) # "/"
    THEN Backtrack(out, w - 1, dotdot)
    ELSE SubSeq(out, 1, w)

\* the end (exclusive) of the path element starting at r
RECURSIVE ElemEnd(_, _)
ElemEnd(path, r) ==
    IF r <= Len(path) /\ Char(path, r) # "/" THEN ElemEnd(path, r + 1) ELSE r

RECURSIVE CleanLoop(_, _, _, _, _)
CleanLoop(path, r, out, dotdot, rooted) ==
    LET n == Len(path) IN
    IF r > n THEN out
    ELSE IF Char(path, r) = "/" THEN CleanLoop(path, r + 1, out, dotdot, rooted)
    ELSE IF Char(path, r) = "." /\ (r = n \/ Char(path, r + 1) = "/")
         THEN CleanLoop(path, r + 1, out, dotdot, rooted)
    ELSE IF Char(path, r) = "." /\ Char(path, r + 1) = "."
            /\ (r + 1 = n \/ Char(path, r + 2) = "/")
         THEN IF Len(out) > dotdot
              THEN CleanLoop(path, r + 2, Backtrack(out, Len(out) - 1, dotdot),
                             dotdot, rooted)
              ELSE IF ~rooted
              THEN LET o == (IF Len(out) > 0 THEN out \o "/" ELSE out) \o ".."
                   IN CleanLoop(path, r + 2, o, Len(o), rooted)
              ELSE CleanLoop(path, r + 2, out, dotdot, rooted)
    ELSE LET e == ElemEnd(path, r)
             sep == IF (rooted /\ Len(out) # 1) \/ (~rooted /\ Len(out) # 0)
                    THEN "/" ELSE ""
         IN CleanLoop(path, e, out \o sep \o SubSeq(path, r, e - 1), dotdot, rooted)

Clean(path) ==
    IF path = "" THEN "."
    ELSE LET rooted == Char(path, 1) = "/"
             out == IF rooted THEN CleanLoop(path, 2, "/", 1, TRUE)
                    ELSE CleanLoop(path, 1, "", 0, FALSE)
         IN IF out = "" THEN "." ELSE out

Join(a, b) ==
    IF Len(a) + Len(b) = 0 THEN ""
    ELSE IF a = "" THEN Clean(b)
    ELSE IF b = "" THEN Clean(a)
    ELSE Clean(a \o "/" \o b)

----------------------------------------------------------------------------
(* net/url, as used at bind.go:49-55 *)

\* the least i >= from with sub at position i of s, or 0
RECURSIVE IndexFrom(_, _, _)
IndexFrom(s, sub, from) ==
    IF from + Len(sub) - 1 > Len(s) THEN 0
    ELSE IF SubSeq(s, from, from + Len(sub) - 1) = sub THEN from
    ELSE IndexFrom(s, sub, from + 1)

HexDigits == {"0", "1", "2", "3", "4", "5", "6", "7", "8", "9",
              "a", "b", "c", "d", "e", "f", "A", "B", "C", "D", "E", "F"}

\* every % of s is followed by two hexadecimal digits
ValidEscapes(s) ==
    \A i \in 1..Len(s) :
        Char(s, i) = "%" =>
            /\ i + 2 <= Len(s)
            /\ Char(s, i + 1) \in HexDigits
            /\ Char(s, i + 2) \in HexDigits

\* url.Parse of scheme://host/path: the scheme up to "://", the host up to
\* the next slash, the path from that slash on; a text without "://" is a
\* path.  An empty scheme before the colon or an invalid escape is an error.
Parse(text) ==
    LET sep == IndexFrom(text, "://", 1)
        hostStart == sep + 3
        slash == IndexFrom(text, "/", hostStart)
        hostEnd == IF slash = 0 THEN Len(text) ELSE slash - 1
        path == IF slash = 0 THEN "" ELSE SubSeq(text, slash, Len(text))
        bad == [Scheme |-> "", Host |-> "", Path |-> ""]
    IN IF sep = 1
       THEN [err |-> "parse " \o text \o ": missing protocol scheme", u |-> bad]
       ELSE IF sep = 0
       THEN IF ValidEscapes(text)
            THEN [err |-> "", u |-> [Scheme |-> "", Host |-> "", Path |-> text]]
            ELSE [err |-> "parse " \o text \o ": invalid URL escape", u |-> bad]
       ELSE IF ~ValidEscapes(path)
       THEN [err |-> "parse " \o text \o ": invalid URL escape", u |-> bad]
       ELSE [err |-> "",
             u |-> [Scheme |-> SubSeq(text, 1, sep - 1),
                    Host |-> SubSeq(text, hostStart, hostEnd),
                    Path |-> path]]

\* (*URL).String: scheme://host, then the path, preceded by a slash when the
\* path is relative and there is a host
URLString(u) ==
    u.Scheme \o "://" \o u.Host
      \o (IF u.Path # "" /\ Char(u.Path, 1) # "/" /\ u.Host # "" THEN "/" ELSE "")
      \o u.Path

\* the URL Get requests for path argument p (bind.go:53 and 55)
RequestURL(u, p) == URLString([u EXCEPT !.Path = Join(u.Path, p)])

\* the path of a URL text, as the server receives it in the request line
RequestPath(url) ==
    LET sep == IndexFrom(url, "://", 1)
        slash == IndexFrom(url, "/", sep + 3)
    IN IF sep = 0 THEN url
       ELSE IF slash = 0 THEN "" ELSE SubSeq(url, slash, Len(url))

\* the base URLs a client is constructed with
BaseURLs == {"http://h", "http://h/", "http://h/a", "http://h/a/b",
             "http://h/a/", "http://h/%zz", "://h"}

----------------------------------------------------------------------------
(* The statistics model, bind.go:87-161 *)

ZeroTask == [ID |-> "", Name |-> "", Quantum |-> 0, References |-> 0, State |-> ""]

ZeroThreadModel ==
    [Type |-> "", WorkerThreads |-> 0, DefaultQuantum |-> 0, TasksRunning |-> 0]

ZeroTaskManager == [Tasks |-> <<>>, ThreadModel |-> ZeroThreadModel]

ZeroServer ==
    [BootTime |-> 0, ConfigTime |-> 0, IncomingQueries |-> <<>>,
     IncomingRequests |-> <<>>, NameServerStats |-> <<>>,
     ZoneStatistics |-> <<>>, ServerRcodes |-> <<>>]

ZeroStatistics ==
    [Server |-> ZeroServer, Views |-> <<>>, ZoneViews |-> <<>>,
     TaskManager |-> ZeroTaskManager]

\* a TaskManager that already holds data when it is passed to Get
UsedTaskManager ==
    [Tasks |-> <<[ID |-> "0x0", Name |-> "old", Quantum |-> 7, References |-> 1,
                  State |-> "idle"]>>,
     ThreadModel |-> [Type |-> "single", WorkerThreads |-> 1,
                      DefaultQuantum |-> 2, TasksRunning |-> 0]]

----------------------------------------------------------------------------
(* strconv, as encoding/xml uses it for the int64 and uint64 fields *)

Digits == "0123456789"

RECURSIVE DigitsValue(_, _)
DigitsValue(s, acc) ==
    IF s = "" THEN acc
    ELSE DigitsValue(SubSeq(s, 2, Len(s)),
                     10 * acc + IndexFrom(Digits, Char(s, 1), 1) - 1)

AllDigits(s) == s # "" /\ \A i \in 1..Len(s) : IndexFrom(Digits, Char(s, i), 1) # 0

ParseUint(s) ==
    IF AllDigits(s) THEN [ok |-> TRUE, n |-> DigitsValue(s, 0)]
    ELSE [ok |-> FALSE, n |-> 0]

ParseInt(s) ==
    IF s # "" /\ Char(s, 1) \in {"-", "+"}
    THEN LET u == ParseUint(SubSeq(s, 2, Len(s)))
         IN [ok |-> u.ok, n |-> IF Char(s, 1) = "-" THEN 0 - u.n ELSE u.n]
    ELSE ParseUint(s)

----------------------------------------------------------------------------
(* XML documents and xml.Decoder.Decode, bind.go:65 with the field tags of *)
(* bind.go:120-161.  A document is the sequence of the root element's      *)
(* children as the decoder meets them; "#syntax", "#eof" and "#timeout"    *)
(* are the places where the stream is malformed, ends early, or the read   *)
(* fails because the HTTP client's timeout fired.                          *)

NoTaskModel == [type |-> "", workerThreads |-> "", defaultQuantum |-> "",
                tasksRunning |-> ""]

Node(name) == [name |-> name, tasks |-> <<>>, tm |-> NoTaskModel, data |-> <<>>]

TasksNode(ts) == [Node("tasks") EXCEPT !.tasks = ts]

ThreadModelNode(tm) == [Node("thread-model") EXCEPT !.tm = tm]

\* <task> elements: the sample of the round-trip fixture, and one whose
\* references count is not an unsigned number
TaskRunning == [id |-> "0x1", name |-> "main", quantum |-> "-1",
                references |-> "3", state |-> "RUNNING"]

TaskBadRefs == [id |-> "0x2", name |-> "zmgr", quantum |-> "5",
                references |-> "-3", state |-> "READY"]

ThreadModelThreaded == [type |-> "threaded", workerThreads |-> "4",
                        defaultQuantum |-> "5", tasksRunning |-> "1"]

DocFull == <<TasksNode(<<TaskRunning>>), ThreadModelNode(ThreadModelThreaded)>>
DocNoTasks == <<ThreadModelNode(ThreadModelThreaded)>>
DocNoThreadModel == <<TasksNode(<<TaskRunning>>)>>
DocBare == <<>>
DocExtra == <<Node("memory"), TasksNode(<<TaskRunning>>)>>
DocEmpty == <<Node("#eof")>>
DocMalformed == <<TasksNode(<<TaskRunning>>), Node("#syntax")>>
DocBadNumber == <<TasksNode(<<TaskRunning, TaskBadRefs>>),
                  ThreadModelNode(ThreadModelThreaded)>>
DocStalled == <<TasksNode(<<TaskRunning>>), Node("#timeout")>>

TaskDocs == {DocFull, DocNoTasks, DocNoThreadModel, DocBare, DocExtra, DocEmpty,
             DocMalformed, DocBadNumber, DocStalled}

\* a <task> element into a Task: id, name, quantum, references, state in
\* document order, stopping at the first field that does not parse
DecodeTask(n) ==
    LET q == ParseInt(n.quantum)
        r == ParseUint(n.references)
        t1 == [ZeroTask EXCEPT !.ID = n.id, !.Name = n.name]
        t2 == [t1 EXCEPT !.Quantum = q.n]
    IN IF ~q.ok THEN [err |-> "strconv.ParseInt: parsing " \o n.quantum, task |-> t1]
       ELSE IF ~r.ok
       THEN [err |-> "strconv.ParseUint: parsing " \o n.references, task |-> t2]
       ELSE [err |-> "", task |-> [t2 EXCEPT !.References = r.n, !.State = n.state]]

\* field Tasks, xml:"tasks>task": each <task> is appended to the slice
RECURSIVE DecodeTasks(_, _)
DecodeTasks(ns, tasks) ==
    IF ns = <<>> THEN [err |-> "", tasks |-> tasks]
    ELSE LET d == DecodeTask(Head(ns))
         IN IF d.err # "" THEN [err |-> d.err, tasks |-> Append(tasks, d.task)]
            ELSE DecodeTasks(Tail(ns), Append(tasks, d.task))

\* field ThreadModel, xml:"thread-model"
DecodeThreadModel(n, old) ==
    LET w == ParseUint(n.workerThreads)
        q == ParseUint(n.defaultQuantum)
        r == ParseUint(n.tasksRunning)
        m1 == [old EXCEPT !.Type = n.type]
        m2 == [m1 EXCEPT !.WorkerThreads = w.n]
        m3 == [m2 EXCEPT !.DefaultQuantum = q.n]
    IN IF ~w.ok THEN [err |-> "strconv.ParseUint: parsing " \o n.workerThreads, tm |-> m1]
       ELSE IF ~q.ok
       THEN [err |-> "strconv.ParseUint: parsing " \o n.defaultQuantum, tm |-> m2]
       ELSE IF ~r.ok
       THEN [err |-> "strconv.ParseUint: parsing " \o n.tasksRunning, tm |-> m3]
       ELSE [err |-> "", tm |-> [m3 EXCEPT !.TasksRunning = r.n]]

\* an element that is no field of TaskManager: the per-group documents of
\* Stats carry a server or a views element; any other element is skipped
DecodeOther(n, v) ==
    IF n.name = "server" /\ "Server" \in DOMAIN v THEN [v EXCEPT !.Server = n.data]
    ELSE IF n.name = "views" /\ "Views" \in DOMAIN v
    THEN [v EXCEPT !.Views = v.Views \o n.data]
    ELSE v

RECURSIVE DecodeNodes(_, _)
DecodeNodes(ns, v) ==
    IF ns = <<>> THEN [err |-> "", v |-> v, timeout |-> FALSE]
    ELSE LET n == Head(ns) IN
      IF n.name = "#syntax"
      THEN [err |-> "XML syntax error on line 1: invalid character",
            v |-> v, timeout |-> FALSE]
      ELSE IF n.name = "#eof" THEN [err |-> "EOF", v |-> v, timeout |-> FALSE]
      ELSE IF n.name = "#timeout"
      THEN [err |-> "net/http: request canceled (Client.Timeout exceeded while reading body)",
            v |-> v, timeout |-> TRUE]
      ELSE IF n.name = "tasks" /\ "Tasks" \in DOMAIN v
      THEN LET d == DecodeTasks(n.tasks, v.Tasks)
               w == [v EXCEPT !.Tasks = d.tasks]
           IN IF d.err # "" THEN [err |-> d.err, v |-> w, timeout |-> FALSE]
              ELSE DecodeNodes(Tail(ns), w)
      ELSE IF n.name = "thread-model" /\ "ThreadModel" \in DOMAIN v
      THEN LET d == DecodeThreadModel(n.tm, v.ThreadModel)
               w == [v EXCEPT !.ThreadModel = d.tm]
           IN IF d.err # "" THEN [err |-> d.err, v |-> w, timeout |-> FALSE]
              ELSE DecodeNodes(Tail(ns), w)
      ELSE DecodeNodes(Tail(ns), DecodeOther(n, v))

\* a document without a tasks element rejected
DecodeRequired(body, v) ==
    IF \A k \in 1..Len(body) : body[k].name # "tasks"
    THEN [err |-> "expected element <tasks>", v |-> v, timeout |-> FALSE]
    ELSE DecodeNodes(body, v)

\* xml.NewDecoder(resp.Body).Decode(v)
Decode(body, v) == DecodeNodes(body, v)

----------------------------------------------------------------------------
(* What the injected HTTP client can yield for one c.http.Get, bind.go:55 *)

NoOutcome == [err |-> "", timeout |-> FALSE, StatusCode |-> 0, Status |-> "",
              Body |-> <<>>]

\* the request fails: connection refused, or the configured timeout fires
\* before the response headers arrive
HTTPFailures ==
    {[NoOutcome EXCEPT !.err = "dial tcp: connect: connection refused"],
     [NoOutcome EXCEPT !.err = "context deadline exceeded (Client.Timeout exceeded while awaiting headers)",
                       !.timeout = TRUE]}

StatusOKLine == <<200, "200 OK">>

ErrorStatuses == {<<204, "204 No Content">>, <<404, "404 Not Found">>}

Response(st, body) ==
    [NoOutcome EXCEPT !.StatusCode = st[1], !.Status = st[2], !.Body = body]

\* a 200 with any of the documents, or another status with some body
HTTPResponses(docs, errorBodies) ==
    {Response(StatusOKLine, d) : d \in docs}
      \cup {Response(st, d) : st \in ErrorStatuses, d \in errorBodies}

NoResp == [got |-> FALSE, StatusCode |-> 0, Status |-> "", Body |-> <<>>,
           closed |-> FALSE]

----------------------------------------------------------------------------
(* XMLClient, bind.go:32-70 *)

NewXMLClient(url, hc) == [url |-> url, http |-> hc]

Quote(s) == "\"" \o s \o "\""

\* the four fmt.Errorf of Get
ErrInvalidURL(url, err) == "invalid URL " \o Quote(url) \o ": " \o err
ErrQuery(err) == "error querying stats: " \o err
\* the status left out of the message
ErrStatusBare(status) == "unexpected status"

ErrStatus(status) == "unexpected status " \o status
\* the decode failure reported with the message of the query failure
ErrUnmarshalAsQuery(err) == "error querying stats: " \o err

ErrUnmarshal(err) == "failed to unmarshal XML response: " \o err

\* the status check accepting every 2xx status
StatusOK2xx(r) == r.StatusCode \in 200..299

\* the status check left out
StatusOKAny(r) == TRUE

\* resp.StatusCode != http.StatusOK
StatusOK(r) == r.StatusCode = 200

\* the deferred Close left out
DeferredCloseMissing(r) == r

\* defer resp.Body.Close(), run when Get returns
DeferredClose(r) == [r EXCEPT !.closed = TRUE]

Busy(i) == \E j \in DOMAIN pc : j # i /\ pc[j] \in {"await", "decoding"}

\* Get up to the call of c.http.Get: parse c.url, join the path, send
Get_Call(i, p, v) ==
    /\ pc[i] \in {"idle", "done"}
    /\ LET r == Parse(c.url) IN
         IF r.err # ""
         THEN /\ ret' = [ret EXCEPT ![i] = ErrInvalidURL(c.url, r.err)]
              /\ reqs' = [reqs EXCEPT ![i] = <<>>]
              /\ pc' = [pc EXCEPT ![i] = "done"]
         ELSE /\ ret' = [ret EXCEPT ![i] = ""]
              /\ reqs' = [reqs EXCEPT ![i] = <<RequestURL(r.u, p)>>]
              /\ pc' = [pc EXCEPT ![i] = "await"]
    /\ arg' = [arg EXCEPT ![i] = p]
    /\ v0' = [v0 EXCEPT ![i] = v]
    /\ target' = [target EXCEPT ![i] = v]
    /\ resp' = [resp EXCEPT ![i] = NoResp]
    /\ outcome' = [outcome EXCEPT ![i] = NoOutcome]
    /\ timedOut' = [timedOut EXCEPT ![i] = FALSE]
    /\ overlap' = [overlap EXCEPT ![i] = FALSE]
    /\ UNCHANGED c

\* the request sent once more after a failure
Get_FailRetry(i, o) ==
    IF Len(reqs[i]) < 2
    THEN /\ reqs' = [reqs EXCEPT ![i] = Append(reqs[i], reqs[i][1])]
         /\ UNCHANGED <<ret, timedOut, pc, resp>>
    ELSE /\ ret' = [ret EXCEPT ![i] = ErrQuery("Get " \o Quote(reqs[i][1]) \o ": " \o o.err)]
         /\ timedOut' = [timedOut EXCEPT ![i] = o.timeout]
         /\ pc' = [pc EXCEPT ![i] = "done"]
         /\ UNCHANGED <<resp, reqs>>

\* c.http.Get returned an error: Get returns it, wrapped
Get_Fail(i, o) ==
    /\ ret' = [ret EXCEPT ![i] = ErrQuery("Get " \o Quote(reqs[i][1]) \o ": " \o o.err)]
    /\ timedOut' = [timedOut EXCEPT ![i] = o.timeout]
    /\ pc' = [pc EXCEPT ![i] = "done"]
    /\ UNCHANGED <<resp, reqs>>

\* c.http.Get yields o; Get checks the error and the status
Get_Response(i, o) ==
    /\ pc[i] = "await"
    /\ outcome' = [outcome EXCEPT ![i] = o]
    /\ overlap' = [overlap EXCEPT ![i] = overlap[i] \/ Busy(i)]
    /\ IF o.err # ""
       THEN Get_Fail(i, o)
       ELSE LET r == [got |-> TRUE, StatusCode |-> o.StatusCode,
                      Status |-> o.Status, Body |-> o.Body, closed |-> FALSE]
            IN IF ~StatusOK(r)
               THEN /\ ret' = [ret EXCEPT ![i] = ErrStatus(r.Status)]
                    /\ resp' = [resp EXCEPT ![i] = DeferredClose(r)]
                    /\ pc' = [pc EXCEPT ![i] = "done"]
                    /\ UNCHANGED <<timedOut, reqs>>
               ELSE /\ resp' = [resp EXCEPT ![i] = r]
                    /\ pc' = [pc EXCEPT ![i] = "decoding"]
                    /\ UNCHANGED <<ret, timedOut, reqs>>
    /\ UNCHANGED <<c, arg, v0, target>>

\* one decode buffer shared by all calls
DecodeIntoShared(i, v) == [j \in DOMAIN target |-> v]

\* Decode stores into the value the caller of call i passed as v
DecodeInto(i, v) == [target EXCEPT ![i] = v]

\* the decoder reads the body into v; Get returns
Get_Decode(i) ==
    /\ pc[i] = "decoding"
    /\ LET d == Decode(resp[i].Body, target[i]) IN
         /\ target' = DecodeInto(i, d.v)
         /\ ret' = [ret EXCEPT ![i] = IF d.err # "" THEN ErrUnmarshal(d.err) ELSE ""]
         /\ timedOut' = [timedOut EXCEPT ![i] = d.timeout]
    /\ resp' = [resp EXCEPT ![i] = DeferredClose(resp[i])]
    /\ overlap' = [overlap EXCEPT ![i] = overlap[i] \/ Busy(i)]
    /\ pc' = [pc EXCEPT ![i] = "done"]
    /\ UNCHANGED <<c, arg, v0, reqs, outcome>>

\* Get run from call to return with nothing else going on
GetAlone(url, p, o, v) ==
    LET r == Parse(url) IN
    IF r.err # "" THEN [ret |-> ErrInvalidURL(url, r.err), v |-> v]
    ELSE IF o.err # ""
    THEN [ret |-> ErrQuery("Get " \o Quote(RequestURL(r.u, p)) \o ": " \o o.err), v |-> v]
    ELSE IF ~StatusOK(o) THEN [ret |-> ErrStatus(o.Status), v |-> v]
    ELSE LET d == Decode(o.Body, v)
         IN [ret |-> IF d.err # "" THEN ErrUnmarshal(d.err) ELSE "", v |-> d.v]

----------------------------------------------------------------------------
(* Callers of Get *)

Calls == {"c1", "c2"}

AllCalls == Calls \cup {"st"}

ClientURLs == {"http://h", "http://h/a/", "http://h/%zz", "://h"}

PathArgs == {"tasks", "/json/../tasks/"}

Targets == {ZeroTaskManager, UsedTaskManager}

Outcomes == HTTPFailures \cup HTTPResponses(TaskDocs, {DocFull, DocEmpty})

GetCall(i, p, v) == Get_Call(i, p, v) /\ UNCHANGED stVars

GetResponse(i, o) == Get_Response(i, o) /\ UNCHANGED stVars

GetDecode(i) == Get_Decode(i) /\ UNCHANGED stVars

\* the state after NewXMLClient(url, client), url one of urls
Constructed(urls) ==
    /\ c \in {NewXMLClient(url, "client") : url \in urls}
    /\ pc = [i \in AllCalls |-> "idle"]
    /\ arg = [i \in AllCalls |-> ""]
    /\ v0 = [i \in AllCalls |-> ZeroTaskManager]
    /\ target = [i \in AllCalls |-> ZeroTaskManager]
    /\ reqs = [i \in AllCalls |-> <<>>]
    /\ resp = [i \in AllCalls |-> NoResp]
    /\ ret = [i \in AllCalls |-> ""]
    /\ outcome = [i \in AllCalls |-> NoOutcome]
    /\ timedOut = [i \in AllCalls |-> FALSE]
    /\ overlap = [i \in AllCalls |-> FALSE]
    /\ stPc = "idle"
    /\ stGroups = <<>>
    /\ stStats = ZeroStatistics
    /\ stRet = [stats |-> ZeroStatistics, err |-> ""]

Init == Constructed(ClientURLs)

Next ==
    \/ \E i \in Calls, p \in PathArgs, v \in Targets : GetCall(i, p, v)
    \/ \E i \in Calls, o \in Outcomes : GetResponse(i, o)
    \/ \E i \in Calls : GetDecode(i)

Spec == Init /\ [][Next]_vars

\* The HTTP client honours its timeout: a request in flight yields a
\* response or an error, and a body being read yields data, its end or an
\* error, so both steps of a started call are eventually taken.
FairSpec ==
    /\ Spec
    /\ \A i \in Calls :
          /\ WF_vars(\E o \in Outcomes : GetResponse(i, o))
          /\ WF_vars(GetDecode(i))

----------------------------------------------------------------------------
(* A single caller trying every path argument against every base URL *)

JoinInit == Constructed(BaseURLs)

\* the caller's one call
JoinCall(p) == pc["c1"] = "idle" /\ GetCall("c1", p, ZeroTaskManager)

JoinNext ==
    \/ \E p \in PathStrings : JoinCall(p)
    \/ \E o \in HTTPFailures : GetResponse("c1", o)

JoinSpec == JoinInit /\ [][JoinNext]_vars

----------------------------------------------------------------------------
(* Client.Stats, bind.go:25-29 and 77-93.  The interface has no            *)
(* implementation in the package; Stats is the contract of the             *)
(* specification: one Get per requested group, each into its own raw       *)
(* value, the whole call failing on the first error.                       *)

ServerStats == "server"
ViewStats == "view"
TaskStats == "tasks"

StatisticGroups == {ServerStats, ViewStats, TaskStats}

\* the groups fetched when Stats is called with none
DefaultGroups == <<ServerStats, ViewStats, TaskStats>>

GroupPath(g) == "/xml/v3/" \o g

\* the zero-valued raw value a group's document is decoded into
RawValue(g) ==
    IF g = ServerStats THEN [Server |-> ZeroServer]
    ELSE IF g = ViewStats THEN [Views |-> <<>>]
    ELSE ZeroTaskManager

\* the fields of Statistics a group's raw value is projected into
Project(g, raw, s) ==
    IF g = ServerStats THEN [s EXCEPT !.Server = raw.Server]
    ELSE IF g = ViewStats THEN [s EXCEPT !.Views = raw.Views]
    ELSE [s EXCEPT !.TaskManager = raw]

SampleServer ==
    [ZeroServer EXCEPT !.BootTime = 1,
                       !.IncomingQueries = <<[Name |-> "A", Counter |-> 10]>>]

SampleView ==
    [Name |-> "_default", Cache |-> <<>>,
     ResolverStats |-> <<[Name |-> "QryRTT1", Counter |-> 10],
                         [Name |-> "QryRTT2", Counter |-> 5]>>,
     ResolverQueries |-> <<>>]

DocServer == <<[Node("server") EXCEPT !.data = SampleServer]>>
DocViews == <<[Node("views") EXCEPT !.data = <<SampleView>>]>>

GroupDoc(g) ==
    IF g = ServerStats THEN DocServer
    ELSE IF g = ViewStats THEN DocViews
    ELSE DocFull

\* the argument lists of Stats: groups in any order, none repeated
GroupArgs ==
    {gs \in UNION {[1..n -> StatisticGroups] : n \in 0..3} :
        \A i, j \in 1..Len(gs) : i # j => gs[i] # gs[j]}

\* what the server can answer for a group's path
StatsOutcomes(g) ==
    HTTPFailures \cup HTTPResponses({GroupDoc(g), DocBare, DocMalformed}, {GroupDoc(g)})

StatsCall(groups) ==
    /\ stPc \in {"idle", "done"}
    /\ pc["st"] \in {"idle", "done"}
    /\ stGroups' = IF groups = <<>> THEN DefaultGroups ELSE groups
    /\ stStats' = ZeroStatistics
    /\ stRet' = [stats |-> ZeroStatistics, err |-> ""]
    /\ stPc' = "fetch"
    /\ UNCHANGED <<c, getVars>>

\* the next group's Get is called
StatsFetch ==
    /\ stPc = "fetch"
    /\ Get_Call("st", GroupPath(Head(stGroups)), RawValue(Head(stGroups)))
    /\ stPc' = "wait"
    /\ UNCHANGED <<stGroups, stStats, stRet>>

StatsResponse ==
    /\ stPc = "wait"
    /\ \E o \in StatsOutcomes(Head(stGroups)) : GetResponse("st", o)

StatsDecode == stPc = "wait" /\ GetDecode("st")

\* the group's Get returned: fail the whole call, or project and go on
StatsCollect ==
    /\ stPc = "wait"
    /\ pc["st"] = "done"
    /\ LET g == Head(stGroups)
           s == Project(g, target["st"], stStats)
       IN IF ret["st"] # ""
          THEN /\ stRet' = [stats |-> ZeroStatistics,
                            err |-> "fetching " \o g \o ": " \o ret["st"]]
               /\ stPc' = "done"
               /\ UNCHANGED <<stGroups, stStats>>
          ELSE /\ stStats' = s
               /\ stGroups' = Tail(stGroups)
               /\ IF Tail(stGroups) = <<>>
                  THEN stRet' = [stats |-> s, err |-> ""] /\ stPc' = "done"
                  ELSE stPc' = "fetch" /\ UNCHANGED stRet
    /\ UNCHANGED <<c, getVars>>

StatsNext ==
    \/ \E groups \in GroupArgs : StatsCall(groups)
    \/ StatsFetch
    \/ StatsResponse
    \/ StatsDecode
    \/ StatsCollect

StatsSpec == Init /\ [][StatsNext]_vars

----------------------------------------------------------------------------
(* What a caller can tell from a returned error, and what happened *)

IsInvalidEndpoint(e) == HasPrefix(e, "invalid URL ")
IsTransport(e) == HasPrefix(e, "error querying stats: ")
IsUnexpectedStatus(e) == HasPrefix(e, "unexpected status ")
IsDecode(e) == HasPrefix(e, "failed to unmarshal XML response: ")

Kinds(e) ==
    {k \in {"ErrInvalidEndpoint", "ErrTransport", "ErrUnexpectedStatus", "ErrDecode"} :
        \/ k = "ErrInvalidEndpoint" /\ IsInvalidEndpoint(e)
        \/ k = "ErrTransport" /\ IsTransport(e)
        \/ k = "ErrUnexpectedStatus" /\ IsUnexpectedStatus(e)
        \/ k = "ErrDecode" /\ IsDecode(e)}

Carries(e, text) == text # "" /\ IndexFrom(e, text, 1) # 0

MalformedBase == Parse(c.url).err # ""
RequestFailed(i) == outcome[i].err # ""
BadStatus(i) == resp[i].got /\ resp[i].StatusCode # 200
DecodeFailed(i) ==
    resp[i].got /\ resp[i].StatusCode = 200 /\ Decode(resp[i].Body, v0[i]).err # ""

Returned(i) == pc[i] = "done"

Omits(doc, name) == \A k \in 1..Len(doc) : doc[k].name # name

\* the stream is complete, well-formed XML
WellFormed(doc) == \A k \in 1..Len(doc) : doc[k].name \notin {"#syntax", "#eof", "#timeout"}

\* no double slash in a path
NoDoubleSlash(path) == IndexFrom(path, "//", 1) = 0

\* the elements of a path
RECURSIVE Elements(_)
Elements(path) ==
    IF path = "" THEN <<>>
    ELSE IF Char(path, 1) = "/" THEN Elements(SubSeq(path, 2, Len(path)))
    ELSE LET e == ElemEnd(path, 1)
         IN <<SubSeq(path, 1, e - 1)>> \o Elements(SubSeq(path, e, Len(path)))

\* path names root or something below it
AtOrBelow(path, root) ==
    LET ps == Elements(path)
        rs == Elements(root)
    IN /\ Len(ps) >= Len(rs)
       /\ SubSeq(ps, 1, Len(rs)) = rs
       /\ \A k \in 1..Len(ps) : ps[k] # ".."

----------------------------------------------------------------------------
(* Claims *)

\* C1: whenever Get has returned and the HTTP client had handed it a
\* response, the body of that response is closed, whichever way Get returned.
C1_BodyClosedOnReturn ==
    \A i \in AllCalls : Returned(i) /\ resp[i].got => resp[i].closed

C1_Witness ==
    \E i \in Calls : Returned(i) /\ resp[i].got /\ resp[i].closed /\ IsDecode(ret[i])

\* C2: a response with a status other than 200 makes Get return the
\* unexpected-status error with the status text in it, never nil, whatever
\* the body holds.
C2_Non200IsStatusError ==
    \A i \in Calls :
        Returned(i) /\ BadStatus(i) =>
            /\ ret[i] # ""
            /\ Kinds(ret[i]) = {"ErrUnexpectedStatus"}
            /\ Carries(ret[i], resp[i].Status)

C2_Witness ==
    \E i \in Calls :
        /\ Returned(i) /\ resp[i].StatusCode = 404 /\ resp[i].Body = DocFull
        /\ ret[i] = "unexpected status 404 Not Found"

C4_PathStaysBelowRoot ==
    \A i \in Calls :
        reqs[i] # <<>> =>
            /\ NoDoubleSlash(RequestPath(reqs[i][1]))
            /\ AtOrBelow(RequestPath(reqs[i][1]), Parse(c.url).u.Path)

\* C5: a call sends one request when the base URL parses and none when it
\* does not; no failure makes it send a second one.
C5_SingleRequest ==
    \A i \in Calls :
        /\ Len(reqs[i]) <= 1
        /\ pc[i] # "idle" => Len(reqs[i]) = IF MalformedBase THEN 0 ELSE 1

C5_Witness ==
    \E i \in Calls :
        Returned(i) /\ RequestFailed(i) /\ IsTransport(ret[i]) /\ Len(reqs[i]) = 1

\* C6: when a group's path answers with a status other than 200, Stats
\* returns an error and the zero Statistics, with nothing of the groups
\* fetched before.
C6_StatsFailsWhole ==
    /\ stPc = "done" /\ BadStatus("st") =>
          stRet.err # "" /\ stRet.stats = ZeroStatistics
    /\ stPc = "done" /\ stRet.err # "" => stRet.stats = ZeroStatistics

C6_Witness ==
    /\ stPc = "done" /\ BadStatus("st")
    /\ stStats # ZeroStatistics
    /\ stRet.err # "" /\ stRet.stats = ZeroStatistics

\* C7: no step of Get changes the client, and a call that overlapped
\* another returns the error and leaves the target that the same call
\* would have run alone.
C7_Stateless ==
    /\ [][c' = c]_vars
    /\ [](\A i \in Calls :
            /\ pc[i] # "idle" =>
                  \/ target[i] = v0[i]
                  \/ target[i] = GetAlone(c.url, arg[i], outcome[i], v0[i]).v
            /\ Returned(i) =>
                  LET a == GetAlone(c.url, arg[i], outcome[i], v0[i])
                  IN ret[i] = a.ret /\ target[i] = a.v)

C7_Witness ==
    /\ Returned("c1") /\ Returned("c2") /\ overlap["c1"] /\ overlap["c2"]
    /\ ret["c1"] = "" /\ IsDecode(ret["c2"])
    /\ target["c1"] # target["c2"]

\* C8: a well-formed 200 document without a tasks or a thread-model element,
\* decoded into a zero TaskManager, gives nil and leaves that field zero.
C8_MissingElementIsZero ==
    \A i \in Calls :
        /\ Returned(i) /\ resp[i].got /\ resp[i].StatusCode = 200
        /\ v0[i] = ZeroTaskManager /\ WellFormed(resp[i].Body)
        => /\ Omits(resp[i].Body, "tasks") =>
                ret[i] = "" /\ target[i].Tasks = <<>>
           /\ Omits(resp[i].Body, "thread-model") =>
                ret[i] = "" /\ target[i].ThreadModel = ZeroThreadModel

C8_Witness ==
    \E i \in Calls :
        /\ Returned(i) /\ resp[i].StatusCode = 200 /\ resp[i].Body = DocNoTasks
        /\ v0[i] = ZeroTaskManager /\ ret[i] = ""
        /\ target[i].Tasks = <<>> /\ target[i].ThreadModel.WorkerThreads = 4

\* C9: when the HTTP client's timeout fired during a call, Get returns the
\* transport error, not a status error, a decode error or nil.
C9_TimeoutIsTransportError ==
    \A i \in Calls : Returned(i) /\ timedOut[i] => Kinds(ret[i]) = {"ErrTransport"}

\* The other half of C9, under FairSpec: every started call returns.
C9_EveryCallReturns ==
    \A i \in Calls : (pc[i] \in {"await", "decoding"}) ~> Returned(i)

\* C10: Get parses, requests, checks the status and decodes in that order;
\* v is as the caller passed it unless a 200 response arrived, and after a
\* malformed base URL, a failed request or another status it is unchanged.
C10_TargetUntouchedOnEarlyFailure ==
    \A i \in Calls :
        /\ pc[i] \in {"await", "decoding"} => ~MalformedBase /\ Len(reqs[i]) = 1
        /\ resp[i].got => Len(reqs[i]) = 1
        /\ pc[i] = "decoding" => resp[i].got /\ resp[i].StatusCode = 200
        /\ target[i] # v0[i] => resp[i].got /\ resp[i].StatusCode = 200
        /\ Returned(i) /\ (MalformedBase \/ RequestFailed(i) \/ BadStatus(i)) =>
              target[i] = v0[i]

C10_Witness ==
    \E i \in Calls :
        /\ Returned(i) /\ BadStatus(i) /\ resp[i].Body = DocFull
        /\ v0[i] = UsedTaskManager /\ target[i] = UsedTaskManager
        /\ Decode(resp[i].Body, v0[i]).v # v0[i]

====
